---- MODULE Spec2Model ----
(***************************************************************************)
(* Model of Watercutalert.py: one run of check_water_cuts().  The run      *)
(* walks RSS_URLS, and for every entry of every feed deduplicates by link, *)
(* filters by publication date and by keyword, asks the classifier, sends  *)
(* an alert when the decision starts with "YES", and pauses.               *)
(*                                                                         *)
(* Python strings are modelled as sequences of one-character strings so    *)
(* that strip, replace, startswith, split, lower and "in" are computed as  *)
(* the interpreter computes them.                                          *)
(*                                                                         *)
(* feed.entries is only read by the for loop of line 121, in order and     *)
(* once, so ParseFeed fixes the number of entries of the feed and          *)
(* NextEntry draws the entry at the position the loop has reached.         *)
(***************************************************************************)
EXTENDS Integers, Sequences, FiniteSets, TLC

\* ---------------------------------------------------------------- bounds
\* Largest number of entries a parsed feed holds in the model.
MaxEntries == 2

\* ------------------------------------------------------ program constants
\* len(RSS_URLS)
NumFeeds == 2

\* "YES", the prefix tested at line 146
YES == <<"Y", "E", "S">>

\* "NO", returned by ask_gemini at lines 59 and 100
NO == <<"N", "O">>

\* "|", the separator of line 151
BAR == "|"

\* 'water', the keyword of line 137
KEYWORD == <<"w", "a", "t", "e", "r">>

\* "Check link for details.", the fallback summary of line 153
FALLBACK == <<"C", "h", "e", "c", "k", " ", "l", "i", "n", "k", " ",
              "f", "o", "r", " ", "d", "e", "t", "a", "i", "l", "s", ".">>

\* ------------------------------------------------------- string functions
UpperCase == <<"A", "B", "C", "D", "E", "F", "G", "H", "I", "J", "K", "L", "M",
               "N", "O", "P", "Q", "R", "S", "T", "U", "V", "W", "X", "Y", "Z">>

LowerCase == <<"a", "b", "c", "d", "e", "f", "g", "h", "i", "j", "k", "l", "m",
               "n", "o", "p", "q", "r", "s", "t", "u", "v", "w", "x", "y", "z">>

\* characters str.strip() removes
Whitespace == {" ", "\n", "\t"}

LowerChar(c) ==
    IF \E i \in 1..Len(UpperCase) : UpperCase[i] = c
    THEN LowerCase[CHOOSE i \in 1..Len(UpperCase) : UpperCase[i] = c]
    ELSE c

\* str.lower()
Lower(s) == [i \in 1..Len(s) |-> LowerChar(s[i])]

\* str.startswith(p)
StartsWith(s, p) == Len(s) >= Len(p) /\ SubSeq(s, 1, Len(p)) = p

\* sub in s
Contains(s, sub) ==
    \E i \in 1..(Len(s) - Len(sub) + 1) : SubSeq(s, i, i + Len(sub) - 1) = sub

RECURSIVE LStrip(_)
LStrip(s) ==
    IF s # <<>> /\ s[1] \in Whitespace THEN LStrip(Tail(s)) ELSE s

RECURSIVE RStrip(_)
RStrip(s) ==
    IF s # <<>> /\ s[Len(s)] \in Whitespace
    THEN RStrip(SubSeq(s, 1, Len(s) - 1))
    ELSE s

\* str.strip()
Strip(s) == RStrip(LStrip(s))

\* str.replace('**', ''): left to right, non-overlapping occurrences
RECURSIVE ReplaceStars(_)
ReplaceStars(s) ==
    IF Len(s) < 2 THEN s
    ELSE IF s[1] = "*" /\ s[2] = "*" THEN ReplaceStars(SubSeq(s, 3, Len(s)))
    ELSE <<s[1]>> \o ReplaceStars(Tail(s))

\* position of the first BAR of s, 0 when there is none
FirstBar(s) ==
    IF \E i \in 1..Len(s) : s[i] = BAR
    THEN CHOOSE i \in 1..Len(s) : s[i] = BAR /\ \A j \in 1..(i - 1) : s[j] # BAR
    ELSE 0

\* str.split("|"): the list of the segments between separators
RECURSIVE Split(_)
Split(s) ==
    IF FirstBar(s) = 0 THEN <<s>>
    ELSE <<SubSeq(s, 1, FirstBar(s) - 1)>> \o Split(SubSeq(s, FirstBar(s) + 1, Len(s)))

\* ------------------------------------------------------------ input pools
\* entry.title values
Titles == { <<"W", "a", "t", "e", "r">>,
            <<"n", "o", " ", "W", "A", "T", "E", "R">>,
            <<"R", "a", "i", "n">> }

\* entry.link values
Links == {"l1", "l2"}

\* get_ist_time().date() of the run
Today == [year |-> 2026, month |-> 11, day |-> 2]

\* entry.published_parsed: the attribute is missing from the entry, or is
\* None, or is a time tuple
Absent == [kind |-> "absent", year |-> 0, month |-> 0, day |-> 0]

NoneStruct == [kind |-> "none", year |-> 0, month |-> 0, day |-> 0]

Structs == { [kind |-> "date", year |-> 2026, month |-> 11, day |-> 2],
             [kind |-> "date", year |-> 2025, month |-> 11, day |-> 2],
             [kind |-> "date", year |-> 2026, month |-> 10, day |-> 2],
             [kind |-> "date", year |-> 2026, month |-> 11, day |-> 3] }

Entries == [title : Titles, link : Links, published : Structs \cup {NoneStruct, Absent}]

NoEntry == [title |-> <<>>, link |-> "-", published |-> NoneStruct]

\* response.text values
Replies == { <<"Y", "E", "S", " ", "|", " ", "s">>,
             <<"Y", "E", "S">>,
             <<"N", "O">>,
             <<"*", "*", "Y", "E", "S", " ", "|", " ", "s", "*", "*">>,
             <<"*", "*", " ", "Y", "E", "S", " ", "|", " ", "s", "*", "*">>,
             <<"Y", "E", "S", " ", "|", " ", "a", " ", "|", " ", "b">>,
             <<" ", "Y", "E", "S", " ", "|", " ", "s", " ">> }

\* ------------------------------------------------------------------ state
VARIABLES
    pc,                   \* position of the run in check_water_cuts
    GEMINI_API_KEY,       \* TRUE when the variable is set (model is not None)
    TELEGRAM_TOKEN,       \* TRUE when the variable is set
    CHAT_ID,              \* TRUE when the variable is set
    url,                  \* index in RSS_URLS of the feed being scanned
    remaining,            \* entries of feed.entries the loop has not reached
    entry,                \* the entry of the current iteration
    seen_links,
    relevant_news_found,
    gemini,               \* how ask_gemini ended: "none", "nokey", "reply", "error"
    raw,                  \* response.text of the current entry
    decision,             \* value returned by ask_gemini
    summary_text,
    asks,                 \* link -> number of ask_gemini invocations
    sends,                \* link -> number of send_telegram_message invocations
    posts,                \* number of requests.post calls
    sleeps,               \* number of time.sleep(4) calls
    examined,             \* entries the loop has reached
    total,                \* entries of the feeds parsed so far
    failures,             \* external calls that failed during the run
    uncaught,             \* exception that left check_water_cuts, or "none"
    log                   \* kinds of lines printed so far

vars == <<pc, GEMINI_API_KEY, TELEGRAM_TOKEN, CHAT_ID, url, remaining, entry,
          seen_links, relevant_news_found, gemini, raw, decision, summary_text,
          asks, sends, posts, sleeps, examined, total, failures, uncaught, log>>

config == <<GEMINI_API_KEY, TELEGRAM_TOKEN, CHAT_ID>>

classifier == <<gemini, raw, decision, summary_text>>

Init ==
    /\ pc = "feed"
    /\ GEMINI_API_KEY \in BOOLEAN
    /\ TELEGRAM_TOKEN \in BOOLEAN
    /\ CHAT_ID \in BOOLEAN
    /\ url = 1
    /\ remaining = 0
    /\ entry = NoEntry
    /\ seen_links = {}
    /\ relevant_news_found = FALSE
    /\ gemini = "none"
    /\ raw = <<>>
    /\ decision = <<>>
    /\ summary_text = <<>>
    /\ asks = [l \in Links |-> 0]
    /\ sends = [l \in Links |-> 0]
    /\ posts = 0
    /\ sleeps = 0
    /\ examined = 0
    /\ total = 0
    /\ failures = {}
    /\ uncaught = "none"
    /\ log = {}

\* ---------------------------------------------------------------- helpers
\* is_published_today as it would be if the year were compared as well
is_published_today_same_year(entry_published_struct) ==
    IF entry_published_struct.kind = "none" THEN FALSE
    ELSE /\ entry_published_struct.day = Today.day
         /\ entry_published_struct.month = Today.month
         /\ entry_published_struct.year = Today.year

\* lines 39-49
is_published_today(entry_published_struct) ==
    IF entry_published_struct.kind = "none" THEN FALSE
    ELSE /\ entry_published_struct.day = Today.day
         /\ entry_published_struct.month = Today.month

\* the keyword test with its condition inverted
keyword_in_title_inverted(title) == ~Contains(Lower(title), KEYWORD)

\* line 137: 'water' in title.lower()
keyword_in_title(title) == Contains(Lower(title), KEYWORD)

\* lines 51-100.  outcome is "nokey" (model is None, no request is made),
\* "error" (generate_content or response.text raised) or "reply"; raised
\* tells whether an exception leaves ask_gemini.
ask_gemini(outcome, text) ==
    IF outcome = "nokey" THEN [text |-> NO, raised |-> FALSE]
    ELSE IF outcome = "error" THEN [text |-> NO, raised |-> FALSE]
    ELSE [text |-> ReplaceStars(Strip(text)), raised |-> FALSE]

\* the test of line 146 as "YES" in decision
is_match_anywhere(d) == Contains(d, YES)

\* line 146
is_match(d) == StartsWith(d, YES)

\* lines 150-153
extract_summary(d) ==
    IF Len(Split(d)) >= 2 THEN Strip(Split(d)[2]) ELSE FALLBACK

\* lines 102-111.  outcome is "ok" or "error" (requests.post raised);
\* posted tells whether requests.post was called, raised whether an
\* exception leaves send_telegram_message.
send_telegram_message(token, chat, outcome) ==
    IF ~token \/ ~chat THEN [posted |-> FALSE, raised |-> FALSE, printed |-> {}]
    ELSE IF outcome = "error"
         THEN [posted |-> TRUE, raised |-> FALSE, printed |-> {"telegram_error"}]
         ELSE [posted |-> TRUE, raised |-> FALSE, printed |-> {}]

\* ---------------------------------------------------------------- actions
\* lines 118-119: for url in RSS_URLS: feed = feedparser.parse(url).  An
\* unreachable or malformed feed comes back with no entries.
ParseFeed ==
    /\ pc = "feed"
    /\ url <= NumFeeds
    /\ \/ /\ \E n \in 0..MaxEntries :
               /\ remaining' = n
               /\ total' = total + n
          /\ UNCHANGED failures
       \/ /\ remaining' = 0
          /\ failures' = failures \cup {"feed"}
          /\ UNCHANGED total
    /\ pc' = "entry"
    /\ UNCHANGED <<config, url, entry, seen_links, relevant_news_found, classifier,
                   asks, sends, posts, sleeps, examined, uncaught, log>>

\* line 121, feed.entries exhausted: on to the next url
EndOfFeed ==
    /\ pc = "entry"
    /\ remaining = 0
    /\ url' = url + 1
    /\ pc' = "feed"
    /\ entry' = NoEntry
    /\ gemini' = "none"
    /\ raw' = <<>>
    /\ decision' = <<>>
    /\ summary_text' = <<>>
    /\ UNCHANGED <<config, remaining, seen_links, relevant_news_found,
                   asks, sends, posts, sleeps, examined, total, failures, uncaught, log>>

\* lines 121-123: the next entry of the feed
NextEntry ==
    /\ pc = "entry"
    /\ remaining > 0
    /\ \E e \in Entries : entry' = e
    /\ remaining' = remaining - 1
    /\ examined' = examined + 1
    /\ gemini' = "none"
    /\ raw' = <<>>
    /\ decision' = <<>>
    /\ summary_text' = <<>>
    /\ pc' = "dedupe"
    /\ UNCHANGED <<config, url, seen_links, relevant_news_found,
                   asks, sends, posts, sleeps, total, failures, uncaught, log>>

\* Dedupe without seen_links.add(link)
DedupeNoAdd ==
    /\ pc = "dedupe"
    /\ pc' = IF entry.link \in seen_links THEN "entry" ELSE "date"
    /\ UNCHANGED <<config, url, remaining, entry, seen_links, relevant_news_found,
                   classifier, asks, sends, posts, sleeps, examined, total, failures,
                   uncaught, log>>

\* lines 125-127
Dedupe ==
    /\ pc = "dedupe"
    /\ IF entry.link \in seen_links
       THEN /\ pc' = "entry"
            /\ UNCHANGED seen_links
       ELSE /\ seen_links' = seen_links \cup {entry.link}
            /\ pc' = "date"
    /\ UNCHANGED <<config, url, remaining, entry, relevant_news_found, classifier,
                   asks, sends, posts, sleeps, examined, total, failures, uncaught, log>>

\* lines 132-134.  Reading entry.published_parsed of an entry that has no
\* such attribute raises AttributeError, which nothing in the run catches.
DateFilter ==
    /\ pc = "date"
    /\ IF entry.published = Absent
       THEN /\ pc' = "aborted"
            /\ uncaught' = "AttributeError"
       ELSE /\ pc' = IF is_published_today(entry.published) THEN "keyword" ELSE "entry"
            /\ UNCHANGED uncaught
    /\ UNCHANGED <<config, url, remaining, entry, seen_links, relevant_news_found,
                   classifier, asks, sends, posts, sleeps, examined, total, failures, log>>

\* lines 137-138
KeywordFilter ==
    /\ pc = "keyword"
    /\ pc' = IF keyword_in_title(entry.title) THEN "ask" ELSE "entry"
    /\ UNCHANGED <<config, url, remaining, entry, seen_links, relevant_news_found,
                   classifier, asks, sends, posts, sleeps, examined, total, failures,
                   uncaught, log>>

\* lines 141-144: decision = ask_gemini(title, link)
AskGemini ==
    /\ pc = "ask"
    /\ \E outcome \in (IF GEMINI_API_KEY THEN {"reply", "error"} ELSE {"nokey"}) :
       \E text \in (IF outcome = "reply" THEN Replies ELSE {<<>>}) :
          /\ gemini' = outcome
          /\ raw' = text
          /\ decision' = ask_gemini(outcome, text).text
          /\ failures' = IF outcome = "error" THEN failures \cup {"gemini"} ELSE failures
          /\ log' = IF outcome = "error" THEN log \cup {"asking", "gemini_error"}
                    ELSE log \cup {"asking"}
          /\ IF ask_gemini(outcome, text).raised
             THEN pc' = "aborted" /\ uncaught' = "GeminiError"
             ELSE pc' = "decide" /\ UNCHANGED uncaught
    /\ asks' = [asks EXCEPT ![entry.link] = @ + 1]
    /\ UNCHANGED <<config, url, remaining, entry, seen_links, relevant_news_found,
                   summary_text, sends, posts, sleeps, examined, total>>

\* lines 146-164: the decision starts with "YES"
Match ==
    /\ pc = "decide"
    /\ is_match(decision)
    /\ summary_text' = extract_summary(decision)
    /\ sends' = [sends EXCEPT ![entry.link] = @ + 1]
    /\ \E outcome \in {"ok", "error"} :
         LET r == send_telegram_message(TELEGRAM_TOKEN, CHAT_ID, outcome) IN
           /\ posts' = IF r.posted THEN posts + 1 ELSE posts
           /\ failures' = IF r.posted /\ outcome = "error"
                          THEN failures \cup {"telegram"} ELSE failures
           /\ log' = log \cup {"match_found"} \cup r.printed
           /\ IF r.raised
              THEN /\ pc' = "aborted"
                   /\ uncaught' = "TelegramError"
                   /\ UNCHANGED relevant_news_found
              ELSE /\ pc' = "sleep"
                   /\ relevant_news_found' = TRUE
                   /\ UNCHANGED uncaught
    /\ UNCHANGED <<config, url, remaining, entry, seen_links, gemini, raw, decision,
                   asks, sleeps, examined, total>>

\* NoMatch with the pause of line 169 placed inside the "YES" branch
NoMatchNoPause ==
    /\ pc = "decide"
    /\ ~StartsWith(decision, YES)
    /\ log' = log \cup {"ai_said_no"}
    /\ pc' = "entry"
    /\ UNCHANGED <<config, url, remaining, entry, seen_links, relevant_news_found,
                   classifier, asks, sends, posts, sleeps, examined, total, failures,
                   uncaught>>

\* lines 165-166
NoMatch ==
    /\ pc = "decide"
    /\ ~is_match(decision)
    /\ log' = log \cup {"ai_said_no"}
    /\ pc' = "sleep"
    /\ UNCHANGED <<config, url, remaining, entry, seen_links, relevant_news_found,
                   classifier, asks, sends, posts, sleeps, examined, total, failures,
                   uncaught>>

\* line 169: time.sleep(4)
Sleep ==
    /\ pc = "sleep"
    /\ sleeps' = sleeps + 1
    /\ pc' = "entry"
    /\ UNCHANGED <<config, url, remaining, entry, seen_links, relevant_news_found,
                   classifier, asks, sends, posts, examined, total, failures,
                   uncaught, log>>

\* lines 171-172, after the last url
Finish ==
    /\ pc = "feed"
    /\ url > NumFeeds
    /\ log' = IF ~relevant_news_found THEN log \cup {"no_detection"} ELSE log
    /\ pc' = "done"
    /\ UNCHANGED <<config, url, remaining, entry, seen_links, relevant_news_found,
                   classifier, asks, sends, posts, sleeps, examined, total, failures,
                   uncaught>>

Next ==
    \/ ParseFeed
    \/ EndOfFeed
    \/ NextEntry
    \/ Dedupe
    \/ DateFilter
    \/ KeywordFilter
    \/ AskGemini
    \/ Match
    \/ NoMatch
    \/ Sleep
    \/ Finish

Spec == Init /\ [][Next]_vars

TypeOK ==
    /\ pc \in {"feed", "entry", "dedupe", "date", "keyword", "ask", "decide",
               "sleep", "done", "aborted"}
    /\ url \in 1..(NumFeeds + 1)
    /\ remaining \in 0..MaxEntries
    /\ entry \in Entries \cup {NoEntry}
    /\ seen_links \subseteq Links
    /\ relevant_news_found \in BOOLEAN
    /\ gemini \in {"none", "nokey", "reply", "error"}

\* ------------------------------------------------------------- properties
RECURSIVE SumOver(_, _)
SumOver(f, D) ==
    IF D = {} THEN 0
    ELSE LET x == CHOOSE y \in D : TRUE IN f[x] + SumOver(f, D \ {x})

\* the current entry has passed the filters and reached the classifier
AtClassifier == pc \in {"ask", "decide", "sleep"}

\* ask_gemini has been invoked for the current entry
Classified == pc \in {"decide", "sleep"}

\* the title holds w-a-t-e-r at some position, each letter in either case
WaterAnyCase(t) ==
    \E i \in 1..(Len(t) - 4) :
        \A k \in 1..5 :
            \/ t[i + k - 1] = KEYWORD[k]
            \/ \E j \in 1..Len(LowerCase) :
                   LowerCase[j] = KEYWORD[k] /\ UpperCase[j] = t[i + k - 1]

\* the part of s after its first BAR, without surrounding whitespace
AfterFirstBar(s) == Strip(SubSeq(s, FirstBar(s) + 1, Len(s)))

\* C1: within one run, ask_gemini and send_telegram_message are each invoked
\* at most once for every link, however many entries of the feeds carry it.
C1_AtMostOncePerLink ==
    \A l \in Links : asks[l] <= 1 /\ sends[l] <= 1

\* an entry of the second feed was skipped as a duplicate of a link that was
\* classified and alerted before
C1_Witness ==
    /\ pc = "entry"
    /\ url = 2
    /\ entry # NoEntry
    /\ gemini = "none"
    /\ asks[entry.link] = 1
    /\ sends[entry.link] = 1

C3_KeywordFilter ==
    /\ AtClassifier => WaterAnyCase(entry.title)
    /\ pc = "keyword" =>
          /\ entry.published.kind = "date"
          /\ entry.published.day = Today.day
          /\ entry.published.month = Today.month
          /\ gemini = "none"
          /\ asks[entry.link] = 0

\* the classifier was asked about a title that holds the keyword in upper case
C3_Witness ==
    /\ Classified
    /\ ~Contains(entry.title, KEYWORD)

\* C4 (as claimed): for a decision that starts with "YES" the summary is the
\* whole text after the first "|", trimmed, and the fallback when there is
\* no "|".
C4_SummaryAfterFirstBar ==
    (pc = "sleep" /\ StartsWith(decision, YES)) =>
        summary_text = IF FirstBar(decision) = 0 THEN FALLBACK
                       ELSE AfterFirstBar(decision)

\* C5: when the decision does not start with "YES" (the reply says so, the
\* classifier call raised, or the API key is missing), the entry is not
\* relevant, send_telegram_message is not invoked and the scan goes on.
C5_FailSafe ==
    /\ [](Classified /\ gemini \in {"error", "nokey"} => ~StartsWith(decision, YES))
    /\ [][(pc = "decide" /\ ~StartsWith(decision, YES)) =>
              /\ sends' = sends
              /\ posts' = posts
              /\ relevant_news_found' = relevant_news_found
              /\ pc' = "sleep"]_vars
    /\ [][(pc = "sleep" /\ ~StartsWith(decision, YES)) => pc' = "entry"]_vars

\* a classifier call raised and the scan went on without an alert
C5_Witness ==
    /\ pc = "entry"
    /\ gemini = "error"
    /\ sends[entry.link] = 0
    /\ ~relevant_news_found

\* C6 (as claimed): a reply that reads "YES ..." once its "**" markers are
\* removed, wherever they stand relative to whitespace, is relevant and
\* yields the summary of the reply without markers.
C6_MarkersTolerated ==
    (pc = "sleep" /\ gemini = "reply" /\ StartsWith(Strip(ReplaceStars(raw)), YES)) =>
        /\ sends[entry.link] = 1
        /\ summary_text = extract_summary(Strip(ReplaceStars(raw)))

\* C7 (as claimed): without bot token or chat id, a relevant entry is logged,
\* nothing is posted, nothing is raised and the finished run has printed its
\* run-level summary line.
C7_SummaryLineWithoutNotifier ==
    (~TELEGRAM_TOKEN \/ ~CHAT_ID) =>
        /\ posts = 0
        /\ uncaught # "TelegramError"
        /\ (\E l \in Links : sends[l] > 0) => "match_found" \in log
        /\ pc = "done" => "no_detection" \in log

\* C8 (as claimed): an entry without a parsed publication timestamp is
\* skipped without error and never reaches the classifier.
C8_NoTimestampSkipped ==
    (entry # NoEntry /\ entry.published.kind # "date") =>
        pc \notin {"aborted", "keyword", "ask", "decide", "sleep"}

\* C9 (as claimed): no failure is fatal to the run: no exception leaves
\* check_water_cuts, whatever feed, classifier or notifier call failed, and
\* a finished run has examined every entry of every feed.
C9_RunNeverAborts ==
    /\ uncaught = "none"
    /\ pc # "aborted"
    /\ pc = "done" => examined = total /\ url = NumFeeds + 1

\* C10: every ask_gemini invocation is followed by one pause before the next
\* entry is examined, and there is no pause without an invocation.
C10_Pacing ==
    /\ Classified => SumOver(asks, Links) = sleeps + 1
    /\ ~Classified => SumOver(asks, Links) = sleeps

\* two entries were classified, each followed by its pause, one of them with
\* a failed delivery, and another entry was skipped without pause
C10_Witness ==
    /\ pc = "entry"
    /\ sleeps = 2
    /\ examined > sleeps
    /\ "telegram" \in failures
    /\ "ai_said_no" \in log

====
